---- MODULE Spec2Model ----
(***************************************************************************)
(* Model of gcm/health_checks/cuda/cudaMemTest.c: the command-line lookup  *)
(* helpers (stringRemoveDelimiter, checkCmdLineFlag,                       *)
(* getCmdLineArgumentInt) and the diagnostic sequence of main.             *)
(*                                                                         *)
(* A C string is a sequence of one-character strings (its terminating NUL  *)
(* is implicit: position Len(s) reads NUL).  A size_t is a sequence of     *)
(* eight base-256 limbs, least significant first, so that the 64-bit       *)
(* wrap-around of the source's arithmetic is kept.                         *)
(***************************************************************************)
EXTENDS Integers, Sequences, FiniteSets, TLC

VARIABLES
    argv,            \* the argument vector, argv[1] being the program name (C argv[0])
    atoiOverflow,    \* what this build's atoi yields on an out-of-range numeral (undefined behaviour)
    pc,              \* position of main
    exitCode,        \* -1 while running, then EXIT_SUCCESS (0) or EXIT_FAILURE (1)
    calls,           \* the GPU runtime calls issued so far, in order
    out,             \* the lines printed so far (stdout and stderr), in order
    devID,           \* main's devID
    alloc_mem_gb,    \* main's alloc_mem_gb (size_t)
    queryOk,         \* whether cudaMemGetInfo returned cudaSuccess
    free_memory,     \* main's free_memory (size_t)
    requested_size,  \* main's requested_size (size_t)
    d_A,             \* main's d_A: "NULL", or "buf" once cudaMalloc has set it
    lexName,         \* SpecLex: the flag name looked up
    lexFound,        \* SpecLex: <<result of checkCmdLineFlag>>, <<>> before the call
    lexValue         \* SpecLex: <<result of getCmdLineArgumentInt>>, <<>> before the call

vars == <<argv, atoiOverflow, pc, exitCode, calls, out, devID, alloc_mem_gb,
          queryOk, free_memory, requested_size, d_A, lexName, lexFound, lexValue>>

-----------------------------------------------------------------------------
(* Bounds *)

\* most arguments after the program name in a run of main
MaxArgs == 2

\* most leading '-' characters on a flag token of SpecLex
MaxDashes == 3

-----------------------------------------------------------------------------
(* C strings *)

NUL == "NUL"

UpperCase == <<"A","B","C","D","E","F","G","H","I","J","K","L","M",
               "N","O","P","Q","R","S","T","U","V","W","X","Y","Z">>
LowerCase == <<"a","b","c","d","e","f","g","h","i","j","k","l","m",
               "n","o","p","q","r","s","t","u","v","w","x","y","z">>
Digits    == <<"0","1","2","3","4","5","6","7","8","9">>

\* string[i] with i counted from 0, as in C
CharAt(string, i) == IF i < Len(string) THEN string[i + 1] ELSE NUL

\* &string[i]
StrFrom(string, i) == SubSeq(string, i + 1, Len(string))

strlen(string) == Len(string)

tolower(c) ==
    IF \E i \in 1..Len(UpperCase) : UpperCase[i] = c
    THEN LowerCase[CHOOSE i \in 1..Len(UpperCase) : UpperCase[i] = c]
    ELSE c

\* offset of the first occurrence of c in string, or -1 (C: a null pointer)
RECURSIVE strchrFrom(_, _, _)
strchrFrom(string, c, i) ==
    IF i >= Len(string) THEN -1
    ELSE IF CharAt(string, i) = c THEN i
    ELSE strchrFrom(string, c, i + 1)

strchr(string, c) == strchrFrom(string, c, 0)

\* 0 when the first n characters agree ignoring case (the comparison stops at
\* a NUL), 1 otherwise (the sign of a difference is never used by the callers)
RECURSIVE strncasecmpFrom(_, _, _, _)
strncasecmpFrom(s1, s2, n, i) ==
    IF i >= n THEN 0
    ELSE IF tolower(CharAt(s1, i)) # tolower(CharAt(s2, i)) THEN 1
    ELSE IF CharAt(s1, i) = NUL THEN 0
    ELSE strncasecmpFrom(s1, s2, n, i + 1)

strncasecmp(s1, s2, n) == strncasecmpFrom(s1, s2, n, 0)

INT_MAX == (2^30 - 1) * 2 + 1
INT_MIN == -INT_MAX - 1

IsDigit(c) == \E i \in 1..Len(Digits) : Digits[i] = c
DigitVal(c) == (CHOOSE i \in 1..Len(Digits) : Digits[i] = c) - 1

\* the digits of string from offset i, accumulated as a non-positive number;
\* 1 when the numeral leaves the range of int
RECURSIVE atoiDigits(_, _, _, _)
atoiDigits(string, i, acc, neg) ==
    IF ~IsDigit(CharAt(string, i)) THEN acc
    ELSE LET d == DigitVal(CharAt(string, i))
             lim == IF neg THEN 8 ELSE 7
         IN  IF acc < -(INT_MAX \div 10) \/ (acc = -(INT_MAX \div 10) /\ d > lim)
             THEN 1
             ELSE atoiDigits(string, i + 1, acc * 10 - d, neg)

RECURSIVE skipSpace(_, _)
skipSpace(string, i) ==
    IF CharAt(string, i) = " " THEN skipSpace(string, i + 1) ELSE i

\* atoi: optional white space, optional sign, decimal digits; 0 when there is
\* no digit.  The result for a numeral out of the range of int is undefined:
\* ovf is the value the build yields there.
atoiWith(string, ovf) ==
    LET i0  == skipSpace(string, 0)
        neg == CharAt(string, i0) = "-"
        i1  == IF CharAt(string, i0) \in {"-", "+"} THEN i0 + 1 ELSE i0
        m   == atoiDigits(string, i1, 0, neg)
    IN  IF m = 1 THEN ovf
        ELSE IF neg THEN m ELSE -m

-----------------------------------------------------------------------------
(* The lookup helpers *)

RECURSIVE countDelimiter(_, _, _)
countDelimiter(delimiter, string, string_start) ==
    IF CharAt(string, string_start) = delimiter
    THEN countDelimiter(delimiter, string, string_start + 1)
    ELSE string_start

stringRemoveDelimiter(delimiter, string) ==
    LET string_start == countDelimiter(delimiter, string, 0)
    IN  IF string_start >= strlen(string) - 1 THEN 0 ELSE string_start

\* the test of one argument in checkCmdLineFlag's loop
flagMatches(arg, string_ref) ==
    LET string_start == stringRemoveDelimiter("-", arg)
        string_argv  == StrFrom(arg, string_start)
        equal_pos    == strchr(string_argv, "=")
        argv_length  == IF equal_pos = -1 THEN strlen(string_argv) ELSE equal_pos
        length       == strlen(string_ref)
    IN  length = argv_length /\ strncasecmp(string_argv, string_ref, length) = 0

RECURSIVE checkCmdLineFlagLoop(_, _, _, _, _)
checkCmdLineFlagLoop(argc, args, string_ref, i, bFound) ==
    IF i >= argc THEN bFound
    ELSE checkCmdLineFlagLoop(argc, args, string_ref, i + 1,
                              bFound \/ flagMatches(args[i + 1], string_ref))

checkCmdLineFlag(argc, args, string_ref) ==
    IF argc >= 1 THEN checkCmdLineFlagLoop(argc, args, string_ref, 1, FALSE)
    ELSE FALSE

\* the test of one argument in getCmdLineArgumentInt's loop
intMatches(arg, string_ref) ==
    LET string_start == stringRemoveDelimiter("-", arg)
        string_argv  == StrFrom(arg, string_start)
        length       == strlen(string_ref)
    IN  strncasecmp(string_argv, string_ref, length) = 0

\* the value one matching argument assigns in getCmdLineArgumentInt's loop
intOfArg(arg, string_ref, ovf) ==
    LET string_start == stringRemoveDelimiter("-", arg)
        string_argv  == StrFrom(arg, string_start)
        length       == strlen(string_ref)
        auto_inc     == IF CharAt(string_argv, length) = "=" THEN 1 ELSE 0
    IN  IF length + 1 <= strlen(string_argv)
        THEN atoiWith(StrFrom(string_argv, length + auto_inc), ovf)
        ELSE 0

\* st = <<bFound, value>>
RECURSIVE getCmdLineArgumentIntLoop(_, _, _, _, _, _)
getCmdLineArgumentIntLoop(argc, args, string_ref, ovf, i, st) ==
    IF i >= argc THEN st
    ELSE getCmdLineArgumentIntLoop(argc, args, string_ref, ovf, i + 1,
             IF intMatches(args[i + 1], string_ref)
             THEN <<TRUE, intOfArg(args[i + 1], string_ref, ovf)>>
             ELSE st)

getCmdLineArgumentIntWith(argc, args, string_ref, ovf) ==
    LET st == IF argc >= 1
              THEN getCmdLineArgumentIntLoop(argc, args, string_ref, ovf, 1, <<FALSE, -1>>)
              ELSE <<FALSE, -1>>
    IN  IF st[1] THEN st[2] ELSE 0

getCmdLineArgumentInt(argc, args, string_ref) ==
    getCmdLineArgumentIntWith(argc, args, string_ref, atoiOverflow)

-----------------------------------------------------------------------------
(* Unsigned integers of any size: base-256 limbs, least significant first, *)
(* no most significant zero limb (zero is the empty sequence)              *)

RECURSIVE BNorm(_)
BNorm(a) ==
    IF a = <<>> THEN <<>>
    ELSE IF a[Len(a)] = 0 THEN BNorm(SubSeq(a, 1, Len(a) - 1))
    ELSE a

RECURSIVE BFromInt(_)
BFromInt(n) == IF n = 0 THEN <<>> ELSE <<n % 256>> \o BFromInt(n \div 256)

BRest(a) == IF a = <<>> THEN <<>> ELSE Tail(a)
BLow(a)  == IF a = <<>> THEN 0 ELSE Head(a)

RECURSIVE BAddC(_, _, _)
BAddC(a, b, c) ==
    IF a = <<>> /\ b = <<>> THEN BFromInt(c)
    ELSE LET x == BLow(a) + BLow(b) + c
         IN  <<x % 256>> \o BAddC(BRest(a), BRest(b), x \div 256)

BAdd(a, b) == BNorm(BAddC(a, b, 0))

\* a - b, for a >= b
RECURSIVE BSubC(_, _, _)
BSubC(a, b, c) ==
    IF a = <<>> THEN <<>>
    ELSE LET x == BLow(a) - BLow(b) - c
         IN  <<x % 256>> \o BSubC(BRest(a), BRest(b), IF x < 0 THEN 1 ELSE 0)

BSub(a, b) == BNorm(BSubC(a, b, 0))

\* a * k, for a small number k
RECURSIVE BMulSmallC(_, _, _)
BMulSmallC(a, k, c) ==
    IF a = <<>> THEN BFromInt(c)
    ELSE LET x == Head(a) * k + c
         IN  <<x % 256>> \o BMulSmallC(Tail(a), k, x \div 256)

BMulSmall(a, k) == BNorm(BMulSmallC(a, k, 0))

RECURSIVE BMul(_, _)
BMul(a, b) ==
    IF b = <<>> \/ a = <<>> THEN <<>>
    ELSE BAdd(BMulSmall(a, Head(b)), <<0>> \o BMul(a, Tail(b)))

\* <<floor(a / k), a mod k>>, for a small number k
RECURSIVE BDivRem(_, _)
BDivRem(a, k) ==
    IF a = <<>> THEN << <<>>, 0 >>
    ELSE LET hi  == BDivRem(Tail(a), k)
             cur == hi[2] * 256 + Head(a)
         IN  << <<cur \div k>> \o hi[1], cur % k >>

BDivSmall(a, k) == BNorm(BDivRem(a, k)[1])

\* -1, 0 or 1 as a < b, a = b or a > b
RECURSIVE BCmpTop(_, _, _)
BCmpTop(a, b, i) ==
    IF i = 0 THEN 0
    ELSE IF a[i] < b[i] THEN -1
    ELSE IF a[i] > b[i] THEN 1
    ELSE BCmpTop(a, b, i - 1)

BCmp(a, b) ==
    IF Len(a) < Len(b) THEN -1
    ELSE IF Len(a) > Len(b) THEN 1
    ELSE BCmpTop(a, b, Len(a))

BGt(a, b) == BCmp(a, b) = 1
BLe(a, b) == BCmp(a, b) # 1

RECURSIVE BitsOf(_)
BitsOf(n) == IF n = 0 THEN 0 ELSE 1 + BitsOf(n \div 2)

BitLen(a) == IF a = <<>> THEN 0 ELSE 8 * (Len(a) - 1) + BitsOf(a[Len(a)])

Zeros(n) == [i \in 1..n |-> 0]

ShiftRight(a, s) ==
    IF s \div 8 >= Len(a) THEN <<>>
    ELSE BDivSmall(SubSeq(a, s \div 8 + 1, Len(a)), 2^(s % 8))

ShiftLeft(a, s) ==
    IF a = <<>> THEN <<>> ELSE Zeros(s \div 8) \o BMulSmall(a, 2^(s % 8))

RECURSIVE BFromDecimalFrom(_, _, _)
BFromDecimalFrom(digits, i, acc) ==
    IF i > Len(digits) THEN acc
    ELSE LET next == BAdd(BMulSmall(acc, 10), BFromInt(DigitVal(digits[i])))
         IN  IF next = <<>> THEN BFromDecimalFrom(digits, i + 1, <<>>)
             ELSE BFromDecimalFrom(digits, i + 1, next)

\* the number a decimal numeral (a sequence of digit characters) denotes
BFromDecimal(digits) == BFromDecimalFrom(digits, 1, <<>>)

-----------------------------------------------------------------------------
(* size_t (64 bits) and double (IEEE 754 binary64) *)

\* a reduced modulo 2^64
SizeT(a) == BNorm(SubSeq(a, 1, IF Len(a) < 64 \div 8 THEN Len(a) ELSE 64 \div 8))

\* (size_t)v for an int v: negative values wrap to 2^64 - |v|
IntToSizeT(v) ==
    IF v >= 0 THEN BFromInt(v)
    ELSE BSub(Zeros(64 \div 8) \o <<1>>, BAdd(BFromInt(-(v + 1)), <<1>>))

SizeMul(a, k) == SizeT(BMulSmall(a, k))

\* x rounded to the nearest number with a 53-bit significand, ties to even
RoundToDouble(x) ==
    IF BitLen(x) <= 53 THEN x
    ELSE LET s    == BitLen(x) - 53
             q    == ShiftRight(x, s)
             r    == BSub(x, ShiftLeft(q, s))
             half == ShiftLeft(<<1>>, s - 1)
             up   == BCmp(r, half) = 1 \/ (BCmp(r, half) = 0 /\ q[1] % 2 = 1)
         IN  ShiftLeft(IF up THEN BAdd(q, <<1>>) ELSE q, s)

\* the double 0.1 is TenthSignificand * 2^-56 (0x3FB999999999999A)
TenthSignificand == <<154, 153, 153, 153, 153, 153, 25>>

\* (size_t)(0.1 * x): x converted to double, the product rounded to double,
\* the result truncated towards zero
TenthOf(x) ==
    ShiftRight(RoundToDouble(BMul(RoundToDouble(x), TenthSignificand)), 56)

-----------------------------------------------------------------------------
(* The strings of the program and the argument vectors explored *)

HELP_STR          == <<"h","e","l","p">>
QUESTION_STR      == <<"?">>
DEVICE_STR        == <<"d","e","v","i","c","e">>
ALLOC_MEM_OPT_STR == <<"a","l","l","o","c","_","m","e","m","_","g","b">>

DEFAULT_ALLOC_MEM_IN_GB == 1

EXIT_SUCCESS == 0
EXIT_FAILURE == 1

ProgName == <<"c","u","d","a","M","e","m","T","e","s","t">>

Dashes(k) == [i \in 1..k |-> "-"]

\* --name and --name=value
Flag(name) == Dashes(2) \o name
FlagEq(name, value) == Dashes(2) \o name \o <<"=">> \o value

OverflowNumeral == <<"9","9","9","9","9","9","9","9","9","9","9">>

\* the arguments a run of main is given
MainArgs ==
    { Flag(HELP_STR),
      Dashes(1) \o QUESTION_STR,
      FlagEq(DEVICE_STR, <<"0">>),
      Flag(ALLOC_MEM_OPT_STR),
      FlagEq(ALLOC_MEM_OPT_STR, <<"0">>),
      FlagEq(ALLOC_MEM_OPT_STR, <<"5">>),
      FlagEq(ALLOC_MEM_OPT_STR, <<"5","0">>),
      FlagEq(ALLOC_MEM_OPT_STR, <<"-","5">>),
      FlagEq(ALLOC_MEM_OPT_STR, OverflowNumeral) }

SeqsUpTo(S, n) == UNION { [1..k -> S] : k \in 0..n }

MainArgvs == { <<ProgName>> \o tail : tail \in SeqsUpTo(MainArgs, MaxArgs) }

Contains(args, token) == \E i \in 2..Len(args) : args[i] = token

\* what atoi may yield on a numeral out of the range of int
AtoiOverflowValues == {INT_MIN, -1, 1215752191, INT_MAX}

\* free device memory as cudaMemGetInfo may report it, in bytes: none, a few
\* bytes, 1,111,111,111 (whose ceiling is exactly 10^9), 10^10, 80 GiB, and
\* 2^52 - 7, at the top of the range of sizes below 2^52 bytes
FreeSamples ==
    { BFromDecimal(<<"0">>),
      BFromDecimal(<<"1">>),
      BFromDecimal(<<"1","9">>),
      BFromDecimal(<<"1","1","1","1","1","1","1","1","1","1">>),
      BFromDecimal(<<"1","0","0","0","0","0","0","0","0","0","0">>),
      BFromDecimal(<<"8","5","8","9","9","3","4","5","9","2","0">>),
      BFromDecimal(<<"4","5","0","3","5","9","9","6","2","7","3","7","0","4","8","9">>) }

\* what the uninitialised free_memory may hold when the query failed
GarbageSamples == FreeSamples \cup { [i \in 1..(64 \div 8) |-> 255] }

-----------------------------------------------------------------------------
(* main *)

Init ==
    /\ argv \in MainArgvs
    /\ atoiOverflow \in IF \E i \in 2..Len(argv) :
                              strchr(argv[i], "=") # -1
                              /\ StrFrom(argv[i], strchr(argv[i], "=") + 1) = OverflowNumeral
                       THEN AtoiOverflowValues ELSE {0}
    /\ pc = "start"
    /\ exitCode = -1
    /\ calls = <<>>
    /\ out = <<>>
    /\ devID = 0
    /\ alloc_mem_gb = IntToSizeT(DEFAULT_ALLOC_MEM_IN_GB)
    /\ queryOk = "none"
    /\ free_memory = <<>>
    /\ requested_size = <<>>
    /\ d_A = "NULL"
    /\ lexName = <<>>
    /\ lexFound = <<>>
    /\ lexValue = <<>>

lexVars == <<lexName, lexFound, lexValue>>

argc == Len(argv)

Call(op, arg, ok) == [op |-> op, arg |-> arg, ok |-> ok]

Return(code) == pc' = "done" /\ exitCode' = code

\* a printed line: its text and the value printed in it (<<>> when none)
Line(text) == <<text, <<>> >>
LineOf(text, value) == <<text, value>>

UsageHelp ==
    << Line("A simple cuda memory testing tool"),
       Line("Usage --device=n (n >= 0 for deviceID),"),
       Line("      --alloc_mem_gb=k (allocates k GB)") >>

UsageNoDevice ==
    << Line("A simple cuda memory testing tool"),
       Line("Usage --device=n (n >= 0 for deviceID)"),
       Line("      --alloc_mem_gb=k (allocates k GB)") >>

\* lines 101-107
CheckHelp ==
    /\ pc = "start"
    /\ IF checkCmdLineFlag(argc, argv, HELP_STR) \/ checkCmdLineFlag(argc, argv, QUESTION_STR)
       THEN /\ out' = out \o UsageHelp
            /\ Return(EXIT_SUCCESS)
       ELSE /\ pc' = "device"
            /\ UNCHANGED <<out, exitCode>>
    /\ UNCHANGED <<argv, atoiOverflow, calls, devID, alloc_mem_gb, queryOk,
                   free_memory, requested_size, d_A, lexVars>>

\* SelectDevice going on to the memory query after a failed cudaSetDevice
SelectDeviceIgnoringFailure ==
    /\ pc = "device"
    /\ IF checkCmdLineFlag(argc, argv, DEVICE_STR)
       THEN \E ok \in BOOLEAN :
            /\ devID' = getCmdLineArgumentInt(argc, argv, DEVICE_STR)
            /\ calls' = Append(calls, Call("cudaSetDevice", devID', ok))
            /\ pc' = "query"
            /\ UNCHANGED <<out, exitCode>>
       ELSE /\ out' = out \o UsageNoDevice
            /\ Return(EXIT_SUCCESS)
            /\ UNCHANGED <<devID, calls>>
    /\ UNCHANGED <<argv, atoiOverflow, alloc_mem_gb, queryOk, free_memory,
                   requested_size, d_A, lexVars>>

\* lines 109-124
SelectDevice ==
    /\ pc = "device"
    /\ IF checkCmdLineFlag(argc, argv, DEVICE_STR)
       THEN \E ok \in BOOLEAN :
            /\ devID' = getCmdLineArgumentInt(argc, argv, DEVICE_STR)
            /\ calls' = Append(calls, Call("cudaSetDevice", devID', ok))
            /\ IF ok
               THEN pc' = "query" /\ UNCHANGED <<out, exitCode>>
               ELSE /\ out' = Append(out, Line("Invalid device id or device already in use"))
                    /\ Return(EXIT_FAILURE)
       ELSE /\ out' = out \o UsageNoDevice
            /\ Return(EXIT_SUCCESS)
            /\ UNCHANGED <<devID, calls>>
    /\ UNCHANGED <<argv, atoiOverflow, alloc_mem_gb, queryOk, free_memory,
                   requested_size, d_A, lexVars>>

\* QueryMemory with a failed cudaMemGetInfo ending the run
QueryMemoryFatal ==
    /\ pc = "query"
    /\ \E ok \in BOOLEAN :
       /\ calls' = Append(calls, Call("cudaMemGetInfo", <<>>, ok))
       /\ queryOk' = IF ok THEN "ok" ELSE "failed"
       /\ IF ok
          THEN /\ free_memory' \in FreeSamples
               /\ out' = Append(out, LineOf("free mem", free_memory'))
               /\ pc' = "size"
               /\ exitCode' = exitCode
          ELSE /\ free_memory' \in GarbageSamples
               /\ out' = out
               /\ Return(EXIT_FAILURE)
    /\ UNCHANGED <<argv, atoiOverflow, devID, alloc_mem_gb,
                   requested_size, d_A, lexVars>>

\* lines 126-132; when the query fails free_memory stays uninitialised
\* (total_memory is only printed and is left out)
QueryMemory ==
    /\ pc = "query"
    /\ \E ok \in BOOLEAN :
       /\ calls' = Append(calls, Call("cudaMemGetInfo", <<>>, ok))
       /\ queryOk' = IF ok THEN "ok" ELSE "failed"
       /\ IF ok
          THEN /\ free_memory' \in FreeSamples
               /\ out' = Append(out, LineOf("free mem", free_memory'))
          ELSE /\ free_memory' \in GarbageSamples
               /\ out' = out
    /\ pc' = "size"
    /\ UNCHANGED <<argv, atoiOverflow, exitCode, devID, alloc_mem_gb,
                   requested_size, d_A, lexVars>>

-----------------------------------------------------------------------------
(* The allocation size, lines 134-151 *)

\* line 134: DEFAULT_ALLOC_MEM_IN_GB * 1000 * 1000 * 1000, in int
DefaultRequestedSize == BFromInt(DEFAULT_ALLOC_MEM_IN_GB * 1000 * 1000 * 1000)

\* AllocMemGb without the replacement of 0 by the default
AllocMemGbNoDefault(value) == IntToSizeT(value)

\* lines 136-141: the int from the command line stored in a size_t, 0 replaced
\* by the default
AllocMemGb(value) ==
    IF IntToSizeT(value) = <<>> THEN IntToSizeT(DEFAULT_ALLOC_MEM_IN_GB)
    ELSE IntToSizeT(value)

\* line 142: alloc_mem_gb * 1000 * 1000 * 1000, in size_t
RequestedBytes(gb) == SizeMul(SizeMul(SizeMul(gb, 1000), 1000), 1000)

\* MaxAllocSize keeping 10% of free memory instead of 90%
MaxAllocSizeTenth(free) == TenthOf(free)

\* line 146
MaxAllocSize(free) == SizeT(BSub(free, TenthOf(free)))

\* ExceedsMax with >= for >
ExceedsMaxOrEqual(requested, max_alloc_size) == BCmp(requested, max_alloc_size) # -1

\* line 148
ExceedsMax(requested, max_alloc_size) == BGt(requested, max_alloc_size)

\* ClampedSize without the clamp
ClampedSizeNoClamp(requested, max_alloc_size) == requested

\* lines 148-151
ClampedSize(requested, max_alloc_size) ==
    IF ExceedsMax(requested, max_alloc_size) THEN max_alloc_size ELSE requested

ClampNotice == "Invalid allocation amount specified, using"

\* lines 134-143: the request before the clamp
ComputeRequest ==
    /\ pc = "size"
    /\ LET present == checkCmdLineFlag(argc, argv, ALLOC_MEM_OPT_STR)
           value   == getCmdLineArgumentInt(argc, argv, ALLOC_MEM_OPT_STR)
           gb      == IF present THEN AllocMemGb(value) ELSE alloc_mem_gb
       IN  /\ alloc_mem_gb' = gb
           /\ requested_size' = IF present THEN RequestedBytes(gb) ELSE DefaultRequestedSize
           /\ out' = IF present THEN Append(out, LineOf("alloc", IntToSizeT(value))) ELSE out
    /\ pc' = "clamp"
    /\ UNCHANGED <<argv, atoiOverflow, exitCode, calls, devID, queryOk,
                   free_memory, d_A, lexVars>>

\* lines 144-151: the clamp to 90% of free memory
ClampRequest ==
    /\ pc = "clamp"
    /\ LET max_alloc_size == MaxAllocSize(free_memory)
       IN  /\ requested_size' = ClampedSize(requested_size, max_alloc_size)
           /\ out' = IF ExceedsMax(requested_size, max_alloc_size)
                     THEN Append(out, LineOf(ClampNotice, max_alloc_size))
                     ELSE out
    /\ pc' = "alloc"
    /\ UNCHANGED <<argv, atoiOverflow, exitCode, calls, devID, alloc_mem_gb,
                   queryOk, free_memory, d_A, lexVars>>

\* lines 163-169 (cudaGetErrorString only words the message: it is part of
\* the printed line, not of the call log)
Allocate ==
    /\ pc = "alloc"
    /\ \E ok \in BOOLEAN :
       /\ calls' = Append(calls, Call("cudaMalloc", requested_size, ok))
       /\ IF ok
          THEN /\ d_A' = "buf"
               /\ pc' = "fill"
               /\ UNCHANGED <<out, exitCode>>
          ELSE /\ out' = Append(out, Line("Test failed (error code %s)!"))
               /\ Return(EXIT_FAILURE)
               /\ d_A' = d_A
    /\ UNCHANGED <<argv, atoiOverflow, devID, alloc_mem_gb, queryOk,
                   free_memory, requested_size, lexVars>>

\* lines 171-177
Fill ==
    /\ pc = "fill"
    /\ \E ok \in BOOLEAN :
       /\ calls' = Append(calls, Call("cudaMemset", requested_size, ok))
       /\ IF ok
          THEN /\ pc' = "free"
               /\ UNCHANGED <<out, exitCode>>
          ELSE /\ out' = Append(out, Line("Test failed in setting mem(error code %s)!"))
               /\ Return(EXIT_FAILURE)
    /\ UNCHANGED <<argv, atoiOverflow, devID, alloc_mem_gb, queryOk,
                   free_memory, requested_size, d_A, lexVars>>

PassedLine == "CUDA memory test PASSED"

\* lines 179-189
Free ==
    /\ pc = "free"
    /\ \E ok \in BOOLEAN :
       /\ calls' = Append(calls, Call("cudaFree", <<>>, ok))
       /\ IF ok
          THEN /\ out' = Append(out, Line(PassedLine))
               /\ Return(EXIT_SUCCESS)
          ELSE /\ out' = Append(out, Line("Failed to free device vector A (error code %s)!"))
               /\ Return(EXIT_FAILURE)
    /\ UNCHANGED <<argv, atoiOverflow, devID, alloc_mem_gb, queryOk,
                   free_memory, requested_size, d_A, lexVars>>

Next ==
    \/ CheckHelp
    \/ SelectDevice
    \/ QueryMemory
    \/ ComputeRequest
    \/ ClampRequest
    \/ Allocate
    \/ Fill
    \/ Free

Spec == Init /\ [][Next]_vars

-----------------------------------------------------------------------------
(* The lookup helpers on their own: one argument vector, one flag name,    *)
(* both helpers applied to it                                              *)

toupper(c) ==
    IF \E i \in 1..Len(LowerCase) : LowerCase[i] = c
    THEN UpperCase[CHOOSE i \in 1..Len(LowerCase) : LowerCase[i] = c]
    ELSE c

Upper(string) == [i \in 1..Len(string) |-> toupper(string[i])]
Capitalised(string) == [i \in 1..Len(string) |-> IF i = 1 THEN toupper(string[i]) ELSE string[i]]
Alternating(string) == [i \in 1..Len(string) |-> IF i % 2 = 0 THEN toupper(string[i]) ELSE string[i]]

\* the flag names main looks up
FlagNames == {HELP_STR, QUESTION_STR, DEVICE_STR, ALLOC_MEM_OPT_STR}

CaseVariants(name) == {name, Upper(name), Capitalised(name), Alternating(name)}

ValueSuffixes == { <<>>, <<"=">>, <<"=","7">>, <<"=","-","3">> }

\* the ways of writing flag `name`: any number of leading '-', any letter
\* case, with or without =<value>
FlagForms(name) ==
    { Dashes(k) \o v \o suffix :
        k \in 0..MaxDashes, v \in CaseVariants(name), suffix \in ValueSuffixes }

\* tokens that only begin with the name
PrefixForms(name) ==
    { Dashes(2) \o name \o suffix :
        suffix \in { <<"f","o","o">>, <<"_","x","=","7">>, <<"3">> } }

OtherTokens(name) ==
    PrefixForms(name) \cup { <<>>, <<"-">>, Flag(<<"v","e","r","b","o","s","e">>) }

LexArgvs(name) ==
    { <<ProgName, t>> : t \in FlagForms(name) \cup OtherTokens(name) }
    \cup { <<ProgName, t, u>> : t \in FlagForms(name), u \in OtherTokens(name) }
    \cup { <<ProgName, u, t>> : t \in FlagForms(name), u \in OtherTokens(name) }

InitLex ==
    /\ lexName \in FlagNames
    /\ argv \in LexArgvs(lexName)
    /\ atoiOverflow = 0
    /\ pc = "lex"
    /\ exitCode = -1
    /\ calls = <<>>
    /\ out = <<>>
    /\ devID = 0
    /\ alloc_mem_gb = IntToSizeT(DEFAULT_ALLOC_MEM_IN_GB)
    /\ queryOk = "none"
    /\ free_memory = <<>>
    /\ requested_size = <<>>
    /\ d_A = "NULL"
    /\ lexFound = <<>>
    /\ lexValue = <<>>

mainVars == <<argv, atoiOverflow, pc, exitCode, calls, out, devID, alloc_mem_gb,
              queryOk, free_memory, requested_size, d_A>>

LexCheckFlag ==
    /\ pc = "lex"
    /\ lexFound = <<>>
    /\ lexFound' = <<checkCmdLineFlag(argc, argv, lexName)>>
    /\ UNCHANGED <<mainVars, lexName, lexValue>>

LexGetInt ==
    /\ pc = "lex"
    /\ lexValue = <<>>
    /\ lexValue' = <<getCmdLineArgumentInt(argc, argv, lexName)>>
    /\ UNCHANGED <<mainVars, lexName, lexFound>>

NextLex == LexCheckFlag \/ LexGetInt

SpecLex == InitLex /\ [][NextLex]_vars

-----------------------------------------------------------------------------
(* Vocabulary of the properties *)

Done == pc = "done"

Issued(op) == \E i \in 1..Len(calls) : calls[i].op = op

Printed(text) == \E i \in 1..Len(out) : out[i][1] = text

SizedCalls == {"cudaMalloc", "cudaMemset"}

FatalCalls == {"cudaSetDevice", "cudaMalloc", "cudaMemset", "cudaFree"}

\* freeBytes - floor(freeBytes / 10), in exact integer arithmetic
Ceiling(free) == BSub(free, BDivSmall(free, 10))

OneGB == BFromDecimal(<<"1","0","0","0","0","0","0","0","0","0">>)

\* the gigabyte count a run asks for: the value of --alloc_mem_gb, 1 when the
\* flag is absent or its value is 0
RequestedGb ==
    IF checkCmdLineFlag(argc, argv, ALLOC_MEM_OPT_STR)
       /\ getCmdLineArgumentInt(argc, argv, ALLOC_MEM_OPT_STR) # 0
    THEN getCmdLineArgumentInt(argc, argv, ALLOC_MEM_OPT_STR)
    ELSE 1

\* RequestedGb * 10^9 as a 64-bit unsigned number
Request == SizeT(BMul(IntToSizeT(RequestedGb), OneGB))

\* request > 0.9 * free, in exact arithmetic
OverNineTenths(request, free) == BGt(BMulSmall(request, 10), BMulSmall(free, 9))

NoticePrinted == Printed(ClampNotice)

\* the arguments that name the allocation flag
IsAllocArg(t) ==
    /\ Len(t) >= 2 + Len(ALLOC_MEM_OPT_STR)
    /\ SubSeq(t, 1, 2 + Len(ALLOC_MEM_OPT_STR)) = Flag(ALLOC_MEM_OPT_STR)

AllocArgsOf(args) == { args[i] : i \in { j \in 2..Len(args) : IsAllocArg(args[j]) } }

\* a run given --alloc_mem_gb=0 or --alloc_mem_gb with no value
ZeroRun ==
    /\ AllocArgsOf(argv) # {}
    /\ AllocArgsOf(argv) \subseteq {Flag(ALLOC_MEM_OPT_STR), FlagEq(ALLOC_MEM_OPT_STR, <<"0">>)}

\* a run without the allocation flag
AbsentRun == AllocArgsOf(argv) = {}

\* the calls other than the memory query
IsCoreCall(c) == c.op # "cudaMemGetInfo"
CoreCalls == SelectSeq(calls, IsCoreCall)

PassSequence == <<"cudaSetDevice", "cudaMalloc", "cudaMemset", "cudaFree">>

AllFourSucceeded ==
    /\ Len(CoreCalls) = Len(PassSequence)
    /\ \A i \in 1..Len(PassSequence) : CoreCalls[i].op = PassSequence[i] /\ CoreCalls[i].ok

-----------------------------------------------------------------------------
(* Properties of main (specification Spec) *)

C2_FailFast ==
    /\ \A i \in 1..Len(calls) :
          (calls[i].op \in FatalCalls /\ ~calls[i].ok) =>
              /\ i = Len(calls)
              /\ pc = "done"
              /\ exitCode = EXIT_FAILURE
              /\ ~Printed(PassedLine)
    /\ \A i, j \in 1..Len(calls) : i # j => calls[i].op # calls[j].op

\* a run whose fill call failed
C2_Witness ==
    /\ Len(calls) = 4
    /\ calls[4].op = "cudaMemset"
    /\ ~calls[4].ok
    /\ exitCode = EXIT_FAILURE

\* C3: a run given --help or -? prints the usage text, exits with code 0 and
\* issues no GPU runtime call.
C3_HelpNoDeviceInteraction ==
    (Contains(argv, Flag(HELP_STR)) \/ Contains(argv, Dashes(1) \o QUESTION_STR)) =>
        /\ calls = <<>>
        /\ Done => (exitCode = EXIT_SUCCESS /\ Printed(UsageHelp[1][1]))

\* C4: no run ends after a successful cudaMalloc without cudaFree having
\* been issued.
C4_BufferFreedBeforeExit ==
    (Done /\ \E i \in 1..Len(calls) : calls[i].op = "cudaMalloc" /\ calls[i].ok)
        => Issued("cudaFree")

C8_PassVerdict ==
    /\ Printed(PassedLine) => (Done /\ exitCode = EXIT_SUCCESS)
    /\ Done => ((Printed(PassedLine) /\ exitCode = EXIT_SUCCESS /\ calls # <<>>)
                    <=> AllFourSucceeded)
    /\ (Done /\ exitCode = EXIT_FAILURE) =>
          \E i \in 1..Len(calls) : calls[i].op \in FatalCalls /\ ~calls[i].ok
    /\ \A i \in 1..Len(calls) :
          calls[i].op = "cudaMemGetInfo" =>
              IF i < Len(calls) THEN calls[i + 1].op = "cudaMalloc" ELSE ~Done

\* a run that passed although its memory query failed
C8_Witness ==
    /\ Done
    /\ queryOk = "failed"
    /\ Printed(PassedLine)
    /\ exitCode = EXIT_SUCCESS

\* C9: a run given --alloc_mem_gb=0, or --alloc_mem_gb with no value, and a
\* run without the flag both start from 10^9 bytes before the clamp, and give
\* cudaMalloc the same size for the same reported free memory: 10^9, or the
\* ceiling when 10^9 exceeds it.
C9_DefaultLaw ==
    (ZeroRun \/ AbsentRun) =>
        /\ pc = "clamp" => requested_size = OneGB
        /\ queryOk = "ok" =>
              \A i \in 1..Len(calls) :
                  calls[i].op = "cudaMalloc" =>
                      calls[i].arg = IF BGt(OneGB, Ceiling(free_memory))
                                     THEN Ceiling(free_memory) ELSE OneGB

\* a run given --alloc_mem_gb=0 that is about to clamp a request of 10^9
C9_Witness ==
    /\ pc = "clamp"
    /\ AllocArgsOf(argv) = {FlagEq(ALLOC_MEM_OPT_STR, <<"0">>)}
    /\ requested_size = OneGB

TenGB == BFromDecimal(<<"1","0","0","0","0","0","0","0","0","0","0">>)

-----------------------------------------------------------------------------
(* Properties of the lookup helpers (specification SpecLex) *)

\* the arguments on which checkCmdLineFlag's test succeeds, with argv[0]
IsMatched(t) == t = ProgName \/ flagMatches(t, lexName)

HasNumeral(t) ==
    /\ strchr(t, "=") # -1
    /\ \/ IsDigit(CharAt(t, strchr(t, "=") + 1))
       \/ CharAt(t, strchr(t, "=") + 1) = "-" /\ IsDigit(CharAt(t, strchr(t, "=") + 2))

NumeralOf(t) == atoiWith(StrFrom(t, strchr(t, "=") + 1), atoiOverflow)

\* C6: the value of getCmdLineArgumentInt is decided by the arguments that
\* checkCmdLineFlag matches alone (dropping the others does not change it),
\* and when a matched argument is name=<n> the value is n.
C6_SameMatchRule ==
    lexValue # <<>> =>
        /\ lexValue[1] = getCmdLineArgumentInt(Len(SelectSeq(argv, IsMatched)),
                                                SelectSeq(argv, IsMatched), lexName)
        /\ \A i \in 2..Len(argv) :
              (flagMatches(argv[i], lexName) /\ HasNumeral(argv[i])) =>
                  lexValue[1] = NumeralOf(argv[i])

\* C7: an argument vector holding the flag name in any letter case, after
\* any number of leading '-', with or without =<value>, reports the flag
\* present.
C7_FlagPresentAnyForm ==
    lexFound # <<>> =>
        ((\E i \in 2..Len(argv) : argv[i] \in FlagForms(lexName)) => lexFound[1])

====
